---- MODULE Spec2Model ----
(***************************************************************************)
(* Password-generation client/server protocol (TCP_server.c, TCP_client.c, *)
(* password.c, protocol.h).                                                *)
(*                                                                         *)
(* Characters are one-character strings; the byte 0 is written NUL.  A C    *)
(* string is the sequence of its characters up to its terminator.          *)
(***************************************************************************)
EXTENDS Integers, Sequences, FiniteSets, TLC

VARIABLES
    srvPc,          \* server: position in main()
    my_socket,      \* server: the listening socket ("none","open","listening","closed")
    client_socket,  \* server: the client whose connection accept() returned, or NoClient
    password_msg,   \* server: PasswordRequest buffer
    response_msg,   \* server: PasswordResponse buffer
    srvExit,        \* server: return value of main() ("0", "-1"), or Running
    rng,            \* hidden state of the C library's rand()
    libc,           \* what this build's atoi() does with a value that does not fit an int
    backlog,        \* connections completed by the kernel, not yet accepted
    srvSock,        \* per connection: the server's end ("none","open","closed")
    cliSock,        \* per connection: the client's end ("none","open","closed")
    s2c,            \* per connection: records in flight, server to client
    c2s,            \* per connection: records in flight, client to server
    cliPc,          \* client: position in main()
    cliInput,       \* client: the line fgets() read into input
    cliReq,         \* client: PasswordRequest buffer
    cliResp,        \* client: PasswordResponse buffer
    cliMenu,        \* client: TRUE once the menu record was received
    cliExit,        \* client: return value of main(), or Running
    menusSent,      \* history: menu records the server sent on each connection
    reqsRead,       \* history: request records the server read on each connection
    respsSent,      \* history: response records the server sent on each connection
    reqsSent,       \* history: request records each client sent
    faults,         \* history: transport faults that were not caused by the peer's end
    short           \* history: per connection, the ends ("server","client") where a
                    \* recv() returned more than 0 and less than the size of the record

vars == <<srvPc, my_socket, client_socket, password_msg, response_msg, srvExit,
          rng, libc, backlog, srvSock, cliSock, s2c, c2s, cliPc, cliInput,
          cliReq, cliResp, cliMenu, cliExit, menusSent, reqsRead, respsSent, reqsSent,
          faults, short>>

(***************************************************************************)
(* Program constants                                                       *)
(***************************************************************************)
MIN_PASSWORD_LENGTH == 6
MAX_PASSWORD_LENGTH == 32
QLEN == 5

NUL == "NUL"

DigitSeq == <<"0","1","2","3","4","5","6","7","8","9">>
LowerSeq == <<"a","b","c","d","e","f","g","h","i","j","k","l","m",
              "n","o","p","q","r","s","t","u","v","w","x","y","z">>
UpperSeq == <<"A","B","C","D","E","F","G","H","I","J","K","L","M",
              "N","O","P","Q","R","S","T","U","V","W","X","Y","Z">>
SymbolSeq == <<"!","@","#","$","%","^","&","*","(",")">>

Range(s) == {s[i] : i \in DOMAIN s}

\* const char charset[] in generate_secure
charset == LowerSeq \o UpperSeq \o DigitSeq \o SymbolSeq

\* the allowed_type argument main() passes to control_type
AllowedTypes == <<"n","a","m","s">>

TypeErrorMsg == "The type inserted is not valid.\n"
LengthErrorMsg == "The length for the password is not valid.\n"

(***************************************************************************)
(* <ctype.h>                                                               *)
(***************************************************************************)
isdigit(c) == c \in Range(DigitSeq)

tolower(c) ==
    IF c \in Range(UpperSeq)
    THEN LowerSeq[CHOOSE i \in DOMAIN UpperSeq : UpperSeq[i] = c]
    ELSE c

DigitVal(c) == (CHOOSE i \in DOMAIN DigitSeq : DigitSeq[i] = c) - 1

(***************************************************************************)
(* atoi().  The decimal value is accumulated in two 16-bit limbs            *)
(* (value mod 2^32 = hi * 65536 + lo), "big" recording that the value       *)
(* passed 2^32 - 1.  The program gives atoi() only strings of digits.  A    *)
(* value above INT_MAX is undefined behaviour in C; the variable libc holds *)
(* what the build does with it:                                            *)
(*   "wrap"   the low 32 bits of the value read as an int: int arithmetic   *)
(*            that wraps, and (int) strtol() where long has 64 bits and     *)
(*            the value fits it;                                           *)
(*   "clamp"  INT_MAX: strtol() where long has 32 bits, a saturating atoi.  *)
(***************************************************************************)
Limb == 65536
HalfLimb == 32768
INT_MAX == 2147483647

RECURSIVE DigitPrefix(_)
DigitPrefix(s) ==
    IF s = <<>> \/ ~isdigit(Head(s)) THEN <<>>
    ELSE <<Head(s)>> \o DigitPrefix(Tail(s))

RECURSIVE Accumulate(_, _)
Accumulate(ds, acc) ==
    IF ds = <<>> THEN acc
    ELSE LET lo1 == acc.lo * 10 + DigitVal(Head(ds))
             hi1 == acc.hi * 10 + (lo1 \div Limb)
         IN  Accumulate(Tail(ds), [lo  |-> lo1 % Limb,
                                   hi  |-> hi1 % Limb,
                                   big |-> acc.big \/ hi1 >= Limb])

\* a 32-bit pattern read as a signed int
AsInt(acc) ==
    IF acc.hi >= HalfLimb THEN (acc.hi - Limb) * Limb + acc.lo
    ELSE acc.hi * Limb + acc.lo

atoi(s, mode) ==
    LET ds == DigitPrefix(s)
        acc == Accumulate(ds, [lo |-> 0, hi |-> 0, big |-> FALSE])
        fits == ~acc.big /\ acc.hi < HalfLimb
    IN  IF fits THEN AsInt(acc)
        ELSE IF mode = "clamp" THEN INT_MAX
        ELSE AsInt(acc)

(***************************************************************************)
(* rand().  The program never calls srand(), so rand() is a fixed           *)
(* pseudo-random sequence; it is modelled as a linear congruential          *)
(* generator whose state is the last value returned.                        *)
(***************************************************************************)
RandMul == 75
RandInc == 74
RandMod == 65537

rand(state) == (state * RandMul + RandInc) % RandMod

(***************************************************************************)
(* password.c: the generators.  Each takes the state of rand() and returns  *)
(* the string written to the buffer with the state after the draws.         *)
(***************************************************************************)
\* mutant: the loop runs while i <= length
RECURSIVE generate_numeric_one_more(_, _, _)
generate_numeric_one_more(password, length, r) ==
    IF Len(password) > length THEN [password |-> password, rng |-> r]
    ELSE LET r1 == rand(r)
         IN  generate_numeric_one_more(Append(password, DigitSeq[(r1 % 10) + 1]),
                                       length, r1)

RECURSIVE generate_numeric(_, _, _)
generate_numeric(password, length, r) ==
    IF Len(password) >= length THEN [password |-> password, rng |-> r]
    ELSE LET r1 == rand(r)
         IN  generate_numeric(Append(password, DigitSeq[(r1 % 10) + 1]), length, r1)

RECURSIVE generate_alpha(_, _, _)
generate_alpha(password, length, r) ==
    IF Len(password) >= length THEN [password |-> password, rng |-> r]
    ELSE LET r1 == rand(r)
         IN  generate_alpha(Append(password, LowerSeq[(r1 % 26) + 1]), length, r1)

RECURSIVE generate_mixed(_, _, _)
generate_mixed(password, length, r) ==
    IF Len(password) >= length THEN [password |-> password, rng |-> r]
    ELSE LET r1 == rand(r)
             r2 == rand(r1)
             ch == IF r1 % 2 # 0 THEN LowerSeq[(r2 % 26) + 1]
                   ELSE DigitSeq[(r2 % 10) + 1]
         IN  generate_mixed(Append(password, ch), length, r2)

RECURSIVE generate_secure(_, _, _)
generate_secure(password, length, r) ==
    IF Len(password) >= length THEN [password |-> password, rng |-> r]
    ELSE LET r1 == rand(r)
         IN  generate_secure(Append(password, charset[(r1 % Len(charset)) + 1]), length, r1)

\* enum PasswordType; a value outside it matches no case and leaves the buffer as it was
PasswordType == {"NUMERIC", "ALPHA", "MIXED", "SECURE"}

generate_password(password, type, length, r) ==
    CASE type = "NUMERIC" -> generate_numeric(<<>>, length, r)
      [] type = "ALPHA"   -> generate_alpha(<<>>, length, r)
      [] type = "MIXED"   -> generate_mixed(<<>>, length, r)
      [] type = "SECURE"  -> generate_secure(<<>>, length, r)
      [] OTHER            -> [password |-> password, rng |-> r]

(***************************************************************************)
(* password.c: the controls                                                *)
(***************************************************************************)
\* mutant: the comparison without tolower()
keep_generating_exact(type, type_for_ending) == type # type_for_ending

keep_generating(type, type_for_ending) == tolower(type) # tolower(type_for_ending)

\* strchr() also finds the terminator of allowed_type when type is the byte 0
control_type(allowed_type, type) == type = NUL \/ type \in Range(allowed_type)

\* mutant: the range test alone, without the loop over the characters
control_length_range_only(length, min_length, max_length, mode) ==
    LET numerical_length == atoi(length, mode)
    IN  numerical_length >= min_length /\ numerical_length <= max_length

\* mutant: the upper bound taken one too far
control_length_upper_open(length, min_length, max_length, mode) ==
    /\ \A i \in DOMAIN length : isdigit(length[i])
    /\ LET numerical_length == atoi(length, mode)
       IN  numerical_length >= min_length /\ numerical_length <= max_length + 1

control_length(length, min_length, max_length, mode) ==
    /\ \A i \in DOMAIN length : isdigit(length[i])
    /\ LET numerical_length == atoi(length, mode)
       IN  numerical_length >= min_length /\ numerical_length <= max_length

(***************************************************************************)
(* TCP_server.c, main(): one pass of the request loop between recv() and    *)
(* send().  uninit is what the uninitialized local password_type holds when *)
(* no case of the switch assigns it.                                        *)
(***************************************************************************)
ClassOf(type, uninit) ==
    CASE tolower(type) = "n" -> "NUMERIC"
      [] tolower(type) = "a" -> "ALPHA"
      [] tolower(type) = "m" -> "MIXED"
      [] tolower(type) = "s" -> "SECURE"
      [] OTHER               -> uninit

\* Each branch of the loop body fills the three other fields of response_msg;
\* keep_going was assigned before the branches (line 175).

\* lines 180-200: the length passed the check
Generated(keep_going, req, resp, r, mode, uninit) ==
    LET numerical_length == atoi(req.length, mode)
        password_type == ClassOf(req.type, uninit)
        g == generate_password(resp.password, password_type, numerical_length, r)
    IN  [resp |-> [keep_going    |-> keep_going,
                   password      |-> g.password,
                   request_error |-> FALSE,
                   error_msg     |-> ""],
         rng  |-> g.rng]

\* lines 203-208
LengthRejected(keep_going, r) ==
    [resp |-> [keep_going    |-> keep_going,
               password      |-> <<>>,
               request_error |-> TRUE,
               error_msg     |-> LengthErrorMsg],
     rng  |-> r]

\* lines 210-215
TypeRejected(keep_going, r) ==
    [resp |-> [keep_going    |-> keep_going,
               password      |-> <<>>,
               request_error |-> TRUE,
               error_msg     |-> TypeErrorMsg],
     rng  |-> r]

\* mutant: the password field is not cleared
Terminated_keeps_password(keep_going, resp, r) ==
    [resp |-> [keep_going    |-> keep_going,
               password      |-> resp.password,
               request_error |-> FALSE,
               error_msg     |-> ""],
     rng  |-> r]

\* lines 217-222
Terminated(keep_going, resp, r) ==
    [resp |-> [keep_going    |-> keep_going,
               password      |-> <<>>,
               request_error |-> FALSE,
               error_msg     |-> ""],
     rng  |-> r]

ProcessRequest(req, resp, r, mode, uninit) ==
    LET keep_going == keep_generating(req.type, "q")
    IN  IF keep_going
        THEN IF control_type(AllowedTypes, req.type)
             THEN IF control_length(req.length, MIN_PASSWORD_LENGTH,
                                    MAX_PASSWORD_LENGTH, mode)
                  THEN Generated(keep_going, req, resp, r, mode, uninit)
                  ELSE LengthRejected(keep_going, r)
             ELSE TypeRejected(keep_going, r)
        ELSE Terminated(keep_going, resp, r)

(***************************************************************************)
(* TCP_client.c: sscanf(input, " %c %s %s", ...) on the line fgets() read.  *)
(* A line is its characters without the newline.                            *)
(***************************************************************************)
RECURSIVE SkipSpace(_)
SkipSpace(s) == IF s # <<>> /\ Head(s) = " " THEN SkipSpace(Tail(s)) ELSE s

RECURSIVE Word(_)
Word(s) == IF s = <<>> \/ Head(s) = " " THEN <<>> ELSE <<Head(s)>> \o Word(Tail(s))

Drop(s, n) == SubSeq(s, n + 1, Len(s))

\* mutant: a third word is not counted
sscanf_two_words(input) ==
    LET s1 == SkipSpace(input)
        s2 == SkipSpace(Tail(s1))
        w2 == Word(s2)
    IN  IF s1 = <<>> THEN [arguments |-> -1]
        ELSE IF w2 = <<>> THEN [arguments |-> 1, type |-> Head(s1)]
        ELSE [arguments |-> 2, type |-> Head(s1), length |-> w2]

\* the number of items assigned (-1 for EOF), the selector and the length string
sscanf(input) ==
    LET s1 == SkipSpace(input)
        s2 == SkipSpace(Tail(s1))
        w2 == Word(s2)
        s3 == SkipSpace(Drop(s2, Len(w2)))
        w3 == Word(s3)
    IN  IF s1 = <<>> THEN [arguments |-> -1]
        ELSE IF w2 = <<>> THEN [arguments |-> 1, type |-> Head(s1)]
        ELSE IF w3 = <<>> THEN [arguments |-> 2, type |-> Head(s1), length |-> w2]
        ELSE [arguments |-> 3, type |-> Head(s1), length |-> w2]

\* mutant: another default
DefaultLength_six == <<"6">>

DefaultLength == <<"8">>

(***************************************************************************)
(* Bounds and inputs                                                       *)
(***************************************************************************)
\* requests sent over all connections
MaxRequests == 2
\* transport faults other than the peer's end being closed
MaxFaults == 1

\* c1 runs TCP_client.c; c2 is any peer that follows the record sequence
\* but fills the request record itself
ProgramClients == {"c1"}
ForeignPeers == {"c2"}
Clients == ProgramClients \cup ForeignPeers
NoClient == "none"
Running == "running"

Types == {"n", "a", "m", "s", "N", "A", "M", "S", "q", "Q", "x", NUL}

\* 2^32 + 6
Wide32 == <<"4","2","9","4","9","6","7","3","0","2">>

LengthTexts == { <<>>, <<"5">>, <<"6">>, <<"8">>, <<"3","2">>, <<"3","3">>,
                 <<"0","0","6">>, <<"a","b","c">>, <<"8","x">>, Wide32 }

\* the requests tried in whole sessions: each kind of selector with a valid
\* length and with an invalid one
Pairs ==
    {<<t, <<"8">>>> : t \in {"n", "S", "Q", "x", NUL}}
    \cup {<<t, <<"a","b","c">>>> : t \in {"n", "q", NUL}}

Requests == {[type |-> p[1], length |-> p[2]] : p \in Pairs}

\* lines the user types in whole sessions: nothing, a selector and a valid
\* length, a selector and an invalid length, the sentinel alone, a third token
Lines ==
    { <<>>,
      <<"n", " ", "8">>,
      <<"n", " ", "a", "b", "c">>,
      <<"q">>,
      <<"n", " ", "8", " ", "z">> }

\* what an uninitialized byte string on the stack may read as
StackGarbage == {<<>>, <<"~">>}
\* what an uninitialized PasswordType may hold
UninitTypes == PasswordType \cup {"GARBAGE"}
AtoiModes == {"wrap", "clamp"}

Menu == [menu_text |-> "menu"]

\* buffers before anything was written to them, and after their process ended
NoInput == <<"~">>
NoRequest == [type |-> NUL, length |-> <<>>]
NoResponse == [keep_going |-> TRUE, password |-> <<>>,
               request_error |-> FALSE, error_msg |-> ""]

\* the bytes of a record behind the terminator of its text were never written
\* by the sender: what they read as when recv() returns them on their own
PaddingRequests == {NoRequest, [type |-> "q", length |-> <<>>]}
PaddingResponses == {[NoResponse EXCEPT !.keep_going = b] : b \in BOOLEAN}

TotalSent == reqsSent["c1"] + reqsSent["c2"]

Init ==
    /\ srvPc = "bind"
    /\ my_socket = "open"
    /\ client_socket = NoClient
    /\ password_msg = NoRequest
    /\ \E g \in StackGarbage : response_msg = [NoResponse EXCEPT !.password = g]
    /\ srvExit = Running
    /\ rng = 1
    /\ libc \in AtoiModes
    /\ backlog = <<>>
    /\ srvSock = [c \in Clients |-> "none"]
    /\ cliSock = [c \in Clients |-> "open"]
    /\ s2c = [c \in Clients |-> <<>>]
    /\ c2s = [c \in Clients |-> <<>>]
    /\ cliPc = [c \in Clients |-> "connect"]
    /\ cliInput = [c \in Clients |-> NoInput]
    /\ cliReq = [c \in Clients |-> NoRequest]
    /\ cliResp = [c \in Clients |-> NoResponse]
    /\ cliMenu = [c \in Clients |-> FALSE]
    /\ cliExit = [c \in Clients |-> Running]
    /\ menusSent = [c \in Clients |-> 0]
    /\ reqsRead = [c \in Clients |-> 0]
    /\ respsSent = [c \in Clients |-> 0]
    /\ reqsSent = [c \in Clients |-> 0]
    /\ faults = 0
    /\ short = [c \in Clients |-> {}]

cliVars == <<cliSock, cliPc, cliInput, cliReq, cliResp, cliMenu, cliExit, reqsSent>>
srvVars == <<srvPc, my_socket, client_socket, password_msg, response_msg, srvExit,
             rng, srvSock, menusSent, reqsRead, respsSent>>

(***************************************************************************)
(* The transport: a record sent to an end that is closed is dropped         *)
(***************************************************************************)
ToClient(c, rec) ==
    s2c' = [s2c EXCEPT ![c] = IF cliSock[c] = "open" THEN Append(@, rec) ELSE @]

ToServer(c, rec) ==
    c2s' = [c2s EXCEPT ![c] = IF srvExit = Running /\ srvSock[c] # "closed"
                              THEN Append(@, rec) ELSE @]

\* a socket call fails on its own account
Fault == faults < MaxFaults /\ faults' = faults + 1

\* recv() finds the connection closed by the peer, or fails
ServerRecvFails(c) ==
    \/ cliSock[c] = "closed" /\ c2s[c] = <<>> /\ UNCHANGED faults
    \/ Fault

ClientRecvFails(c) ==
    \/ (srvExit # Running \/ srvSock[c] = "closed") /\ s2c[c] = <<>> /\ UNCHANGED faults
    \/ Fault

(***************************************************************************)
(* TCP_server.c, main()                                                    *)
(***************************************************************************)
\* return from main(): the process ends, its buffers are gone and the kernel
\* drops what its sockets had not read
ServerReturn(code) ==
    /\ srvPc' = "exited"
    /\ srvExit' = code
    /\ password_msg' = NoRequest
    /\ response_msg' = NoResponse
    /\ rng' = 1
    /\ c2s' = [c \in Clients |-> <<>>]
    /\ backlog' = <<>>

ServerBind ==
    /\ srvPc = "bind"
    /\ srvPc' = "listen"
    /\ UNCHANGED <<my_socket, client_socket, password_msg, response_msg, srvExit,
                   rng, libc, short, faults, backlog, srvSock, s2c, c2s, menusSent, reqsRead,
                   respsSent>>
    /\ UNCHANGED cliVars

ServerBindFail ==
    /\ srvPc = "bind"
    /\ my_socket' = "closed"
    /\ Fault
    /\ ServerReturn("-1")
    /\ UNCHANGED <<client_socket, libc, short, srvSock, s2c, menusSent, reqsRead,
                   respsSent>>
    /\ UNCHANGED cliVars

ServerListen ==
    /\ srvPc = "listen"
    /\ my_socket' = "listening"
    /\ srvPc' = "accept"
    /\ UNCHANGED <<client_socket, password_msg, response_msg, srvExit,
                   rng, libc, short, faults, backlog, srvSock, s2c, c2s, menusSent, reqsRead,
                   respsSent>>
    /\ UNCHANGED cliVars

ServerListenFail ==
    /\ srvPc = "listen"
    /\ my_socket' = "closed"
    /\ Fault
    /\ ServerReturn("-1")
    /\ UNCHANGED <<client_socket, libc, short, srvSock, s2c, menusSent, reqsRead,
                   respsSent>>
    /\ UNCHANGED cliVars

\* mutant: the request loop is entered without sending the menu
ServerAccept_skips_menu ==
    /\ srvPc = "accept"
    /\ backlog # <<>>
    /\ client_socket' = Head(backlog)
    /\ backlog' = Tail(backlog)
    /\ srvSock' = [srvSock EXCEPT ![Head(backlog)] = "open"]
    /\ srvPc' = "recv_request"
    /\ UNCHANGED <<my_socket, password_msg, response_msg, srvExit,
                   rng, libc, short, faults, s2c, c2s, menusSent, reqsRead,
                   respsSent>>
    /\ UNCHANGED cliVars

ServerAccept ==
    /\ srvPc = "accept"
    /\ backlog # <<>>
    /\ client_socket' = Head(backlog)
    /\ backlog' = Tail(backlog)
    /\ srvSock' = [srvSock EXCEPT ![Head(backlog)] = "open"]
    /\ srvPc' = "send_menu"
    /\ UNCHANGED <<my_socket, password_msg, response_msg, srvExit,
                   rng, libc, short, faults, s2c, c2s, menusSent, reqsRead,
                   respsSent>>
    /\ UNCHANGED cliVars

\* accept() fails: closesocket() is given the invalid descriptor, my_socket stays as it is
ServerAcceptFail ==
    /\ srvPc = "accept"
    /\ Fault
    /\ ServerReturn("0")
    /\ UNCHANGED <<my_socket, client_socket, libc, short, srvSock, s2c, menusSent, reqsRead,
                   respsSent>>
    /\ UNCHANGED cliVars

ServerSendMenu ==
    /\ srvPc = "send_menu"
    /\ ToClient(client_socket, Menu)
    /\ menusSent' = [menusSent EXCEPT ![client_socket] = @ + 1]
    /\ srvPc' = "recv_request"
    /\ UNCHANGED <<my_socket, client_socket, password_msg, response_msg, srvExit,
                   rng, libc, short, faults, backlog, srvSock, c2s, reqsRead, respsSent>>
    /\ UNCHANGED cliVars

\* mutant: the short send of the menu is ignored and the session goes on
ServerSendMenuFail_goes_on ==
    /\ srvPc = "send_menu"
    /\ Fault
    /\ srvPc' = "recv_request"
    /\ UNCHANGED <<my_socket, client_socket, password_msg, response_msg, srvExit,
                   rng, libc, short, backlog, srvSock, s2c, c2s, menusSent, reqsRead,
                   respsSent>>
    /\ UNCHANGED cliVars

ServerSendMenuFail ==
    /\ srvPc = "send_menu"
    /\ srvSock' = [srvSock EXCEPT ![client_socket] = "closed"]
    /\ Fault
    /\ ServerReturn("-1")
    /\ UNCHANGED <<my_socket, client_socket, libc, short, s2c, menusSent, reqsRead,
                   respsSent>>
    /\ UNCHANGED cliVars

\* recv() of a request record, then the body of the loop up to send()
\* mutant: the loop reads the next request without answering this one
ServerRecvRequest_reads_on ==
    /\ srvPc = "recv_request"
    /\ c2s[client_socket] # <<>>
    /\ \E uninit \in UninitTypes :
          LET req == Head(c2s[client_socket])
              out == ProcessRequest(req, response_msg, rng, libc, uninit)
          IN  \* password_type is read uninitialized only when no case assigned it
              /\ ClassOf(req.type, "GARBAGE") # "GARBAGE" => uninit = "GARBAGE"
              /\ password_msg' = req
              /\ response_msg' = out.resp
              /\ rng' = out.rng
    /\ c2s' = [c2s EXCEPT ![client_socket] = Tail(@)]
    /\ reqsRead' = [reqsRead EXCEPT ![client_socket] = @ + 1]
    /\ srvPc' = "recv_request"
    /\ UNCHANGED <<my_socket, client_socket, srvExit, libc, short, faults, backlog, srvSock,
                   s2c, menusSent, respsSent>>
    /\ UNCHANGED cliVars

ServerRecvRequest ==
    /\ srvPc = "recv_request"
    /\ c2s[client_socket] # <<>>
    /\ \E uninit \in UninitTypes :
          LET req == Head(c2s[client_socket])
              out == ProcessRequest(req, response_msg, rng, libc, uninit)
          IN  \* password_type is read uninitialized only when no case assigned it
              /\ ClassOf(req.type, "GARBAGE") # "GARBAGE" => uninit = "GARBAGE"
              /\ password_msg' = req
              /\ response_msg' = out.resp
              /\ rng' = out.rng
    /\ c2s' = [c2s EXCEPT ![client_socket] = Tail(@)]
    /\ reqsRead' = [reqsRead EXCEPT ![client_socket] = @ + 1]
    /\ srvPc' = "send_response"
    /\ UNCHANGED <<my_socket, client_socket, srvExit, libc, short, faults, backlog, srvSock,
                   s2c, menusSent, respsSent>>
    /\ UNCHANGED cliVars

ServerRecvRequestFail ==
    /\ srvPc = "recv_request"
    /\ srvSock' = [srvSock EXCEPT ![client_socket] = "closed"]
    /\ ServerRecvFails(client_socket)
    /\ ServerReturn("-1")
    /\ UNCHANGED <<my_socket, client_socket, libc, short, s2c, menusSent, reqsRead,
                   respsSent>>
    /\ UNCHANGED cliVars

\* recv() returns the selector and the length with its terminator but less
\* than sizeof(password_msg): the return value is above 0, the loop body runs,
\* and the bytes not yet delivered are what the next recv() returns.  From
\* then on the records of this connection are out of step: a second short
\* recv() on it is not followed.
ServerRecvRequestPartial ==
    /\ srvPc = "recv_request"
    /\ c2s[client_socket] # <<>>
    /\ short[client_socket] = {}
    /\ Fault
    /\ \E uninit \in UninitTypes :
          LET req == Head(c2s[client_socket])
              out == ProcessRequest(req, response_msg, rng, libc, uninit)
          IN  /\ ClassOf(req.type, "GARBAGE") # "GARBAGE" => uninit = "GARBAGE"
              /\ password_msg' = req
              /\ response_msg' = out.resp
              /\ rng' = out.rng
    /\ \E rest \in PaddingRequests :
          c2s' = [c2s EXCEPT ![client_socket] = <<rest>> \o Tail(@)]
    /\ short' = [short EXCEPT ![client_socket] = @ \cup {"server"}]
    /\ reqsRead' = [reqsRead EXCEPT ![client_socket] = @ + 1]
    /\ srvPc' = "send_response"
    /\ UNCHANGED <<my_socket, client_socket, srvExit, libc, backlog, srvSock,
                   s2c, menusSent, respsSent>>
    /\ UNCHANGED cliVars

\* mutant: the loop goes back to before the menu is sent
ServerSendResponse_resends_menu ==
    /\ srvPc = "send_response"
    /\ ToClient(client_socket, response_msg)
    /\ IF response_msg.keep_going
       THEN /\ srvPc' = "send_menu"
            /\ UNCHANGED <<srvSock, c2s>>
       ELSE /\ srvPc' = "accept"
            /\ srvSock' = [srvSock EXCEPT ![client_socket] = "closed"]
            /\ c2s' = [c2s EXCEPT ![client_socket] = <<>>]
    /\ UNCHANGED <<my_socket, client_socket, password_msg, response_msg, srvExit,
                   rng, libc, short, faults, backlog, menusSent, reqsRead>>
    /\ respsSent' = [respsSent EXCEPT ![client_socket] = @ + 1]
    /\ UNCHANGED cliVars

\* send() of the response, the loop condition, and closesocket() after the loop
\* mutant: the loop ends without closesocket(client_socket)
ServerSendResponse_keeps_open ==
    /\ srvPc = "send_response"
    /\ ToClient(client_socket, response_msg)
    /\ IF response_msg.keep_going
       THEN /\ srvPc' = "recv_request"
            /\ UNCHANGED <<srvSock, c2s>>
       ELSE /\ srvPc' = "accept"
            /\ srvSock' = srvSock
            /\ c2s' = [c2s EXCEPT ![client_socket] = <<>>]
    /\ UNCHANGED <<my_socket, client_socket, password_msg, response_msg, srvExit,
                   rng, libc, short, faults, backlog, menusSent, reqsRead>>
    /\ respsSent' = [respsSent EXCEPT ![client_socket] = @ + 1]
    /\ UNCHANGED cliVars

\* mutant: the request loop ends after every response, the connection left open
ServerSendResponse_leaves_loop ==
    /\ srvPc = "send_response"
    /\ ToClient(client_socket, response_msg)
    /\ srvPc' = "accept"
    /\ IF response_msg.keep_going
       THEN UNCHANGED <<srvSock, c2s>>
       ELSE /\ srvSock' = [srvSock EXCEPT ![client_socket] = "closed"]
            /\ c2s' = [c2s EXCEPT ![client_socket] = <<>>]
    /\ UNCHANGED <<my_socket, client_socket, password_msg, response_msg, srvExit,
                   rng, libc, short, faults, backlog, menusSent, reqsRead>>
    /\ respsSent' = [respsSent EXCEPT ![client_socket] = @ + 1]
    /\ UNCHANGED cliVars

ServerSendResponse ==
    /\ srvPc = "send_response"
    /\ ToClient(client_socket, response_msg)
    /\ IF response_msg.keep_going
       THEN /\ srvPc' = "recv_request"
            /\ UNCHANGED <<srvSock, c2s>>
       ELSE /\ srvPc' = "accept"
            /\ srvSock' = [srvSock EXCEPT ![client_socket] = "closed"]
            /\ c2s' = [c2s EXCEPT ![client_socket] = <<>>]
    /\ UNCHANGED <<my_socket, client_socket, password_msg, response_msg, srvExit,
                   rng, libc, short, faults, backlog, menusSent, reqsRead>>
    /\ respsSent' = [respsSent EXCEPT ![client_socket] = @ + 1]
    /\ UNCHANGED cliVars

ServerSendResponseFail ==
    /\ srvPc = "send_response"
    /\ srvSock' = [srvSock EXCEPT ![client_socket] = "closed"]
    /\ Fault
    /\ ServerReturn("-1")
    /\ UNCHANGED <<my_socket, client_socket, libc, short, s2c, menusSent, reqsRead,
                   respsSent>>
    /\ UNCHANGED cliVars

(***************************************************************************)
(* TCP_client.c, main()                                                    *)
(***************************************************************************)
\* mutant: main() returns without closesocket(c_socket)
ClientReturn_leaves_open(c, code) ==
    /\ cliSock' = cliSock
    /\ cliPc' = [cliPc EXCEPT ![c] = "done"]
    /\ cliExit' = [cliExit EXCEPT ![c] = code]
    /\ cliInput' = [cliInput EXCEPT ![c] = NoInput]
    /\ cliReq' = [cliReq EXCEPT ![c] = NoRequest]
    /\ cliResp' = [cliResp EXCEPT ![c] = NoResponse]
    /\ s2c' = [s2c EXCEPT ![c] = <<>>]

\* closesocket(c_socket) and return from main(): the process ends, its
\* buffers are gone and the kernel drops what its socket had not read
ClientReturn(c, code) ==
    /\ cliSock' = [cliSock EXCEPT ![c] = "closed"]
    /\ cliPc' = [cliPc EXCEPT ![c] = "done"]
    /\ cliExit' = [cliExit EXCEPT ![c] = code]
    /\ cliInput' = [cliInput EXCEPT ![c] = NoInput]
    /\ cliReq' = [cliReq EXCEPT ![c] = NoRequest]
    /\ cliResp' = [cliResp EXCEPT ![c] = NoResponse]
    /\ s2c' = [s2c EXCEPT ![c] = <<>>]

\* connect() completes in the kernel once the server listens, before accept()
ClientConnect(c) ==
    /\ cliPc[c] = "connect"
    /\ my_socket = "listening"
    /\ srvExit = Running
    /\ Len(backlog) < QLEN
    /\ backlog' = Append(backlog, c)
    /\ cliPc' = [cliPc EXCEPT ![c] = "recv_menu"]
    /\ UNCHANGED <<cliSock, cliInput, cliReq, cliResp, cliMenu, cliExit, reqsSent, libc, short, faults, s2c, c2s>>
    /\ UNCHANGED srvVars

ClientConnectFail(c) ==
    /\ cliPc[c] = "connect"
    /\ \/ (my_socket # "listening" \/ srvExit # Running) /\ UNCHANGED faults
       \/ Fault
    /\ ClientReturn(c, "-1")
    /\ UNCHANGED <<cliMenu, reqsSent, libc, short, backlog, c2s>>
    /\ UNCHANGED srvVars

\* mutant: after the menu the client waits for a response before it sent a request
ClientRecvMenu_awaits_response(c) ==
    /\ cliPc[c] = "recv_menu"
    /\ s2c[c] # <<>>
    /\ s2c' = [s2c EXCEPT ![c] = Tail(@)]
    /\ cliMenu' = [cliMenu EXCEPT ![c] = TRUE]
    /\ cliPc' = [cliPc EXCEPT ![c] = "recv_response"]
    /\ UNCHANGED <<cliSock, cliInput, cliReq, cliResp, cliExit, reqsSent, libc, short, faults, backlog, c2s>>
    /\ UNCHANGED srvVars

ClientRecvMenu(c) ==
    /\ cliPc[c] = "recv_menu"
    /\ s2c[c] # <<>>
    /\ s2c' = [s2c EXCEPT ![c] = Tail(@)]
    /\ cliMenu' = [cliMenu EXCEPT ![c] = TRUE]
    /\ cliPc' = [cliPc EXCEPT ![c] = "prompt"]
    /\ UNCHANGED <<cliSock, cliInput, cliReq, cliResp, cliExit, reqsSent, libc, short, faults, backlog, c2s>>
    /\ UNCHANGED srvVars

ClientRecvMenuFail(c) ==
    /\ cliPc[c] = "recv_menu"
    /\ ClientRecvFails(c)
    /\ ClientReturn(c, "-1")
    /\ UNCHANGED <<cliMenu, reqsSent, libc, short, backlog, c2s>>
    /\ UNCHANGED srvVars

\* recv() returns the menu text with its terminator but less than
\* sizeof(menu_msg): the return value is above 0 and the client goes on
ClientRecvMenuPartial(c) ==
    /\ c \in ProgramClients
    /\ cliPc[c] = "recv_menu"
    /\ s2c[c] # <<>>
    /\ short[c] = {}
    /\ Fault
    /\ \E rest \in PaddingResponses : s2c' = [s2c EXCEPT ![c] = <<rest>> \o Tail(@)]
    /\ short' = [short EXCEPT ![c] = @ \cup {"client"}]
    /\ cliMenu' = [cliMenu EXCEPT ![c] = TRUE]
    /\ cliPc' = [cliPc EXCEPT ![c] = "prompt"]
    /\ UNCHANGED <<cliSock, cliInput, cliReq, cliResp, cliExit, reqsSent, libc, backlog, c2s>>
    /\ UNCHANGED srvVars

\* send() of the request in the client's buffer
ClientSend(c, req) ==
    /\ cliReq' = [cliReq EXCEPT ![c] = req]
    /\ ToServer(c, req)
    /\ reqsSent' = [reqsSent EXCEPT ![c] = @ + 1]
    /\ cliPc' = [cliPc EXCEPT ![c] = "recv_response"]
    /\ UNCHANGED <<cliSock, cliResp, cliExit, s2c>>

\* the menu is printed and fgets() reads the line the user typed
ClientFgets(c, input) ==
    /\ c \in ProgramClients
    /\ cliPc[c] = "prompt"
    /\ TotalSent < MaxRequests
    /\ cliInput' = [cliInput EXCEPT ![c] = input]
    /\ cliPc' = [cliPc EXCEPT ![c] = "parse"]
    /\ UNCHANGED <<cliSock, cliReq, cliResp, cliMenu, cliExit, reqsSent, libc, short,
                   faults, backlog, s2c, c2s>>
    /\ UNCHANGED srvVars

\* the rest of the pass: sscanf() of the line, then send(), or "continue" and
\* the loop condition.  The line is not read again before the next fgets().
ClientInput(c) ==
    /\ cliPc[c] = "parse"
    /\ cliInput' = [cliInput EXCEPT ![c] = NoInput]
    /\ LET p == sscanf(cliInput[c])
       IN  CASE p.arguments = 1 ->
                  ClientSend(c, [type |-> p.type, length |-> DefaultLength])
             [] p.arguments = 2 ->
                  ClientSend(c, [type |-> p.type, length |-> p.length])
             [] p.arguments = 3 ->
                  /\ cliReq' = [cliReq EXCEPT ![c] = [type |-> p.type,
                                                      length |-> p.length]]
                  /\ cliResp' = [cliResp EXCEPT ![c].keep_going = TRUE]
                  /\ cliPc' = [cliPc EXCEPT ![c] = "prompt"]
                  /\ UNCHANGED <<cliSock, cliExit, reqsSent, s2c, c2s>>
             [] OTHER ->
                  /\ cliResp' = [cliResp EXCEPT ![c].keep_going = TRUE]
                  /\ cliPc' = [cliPc EXCEPT ![c] = "prompt"]
                  /\ UNCHANGED <<cliSock, cliReq, cliExit, reqsSent, s2c, c2s>>
    /\ UNCHANGED <<cliMenu, libc, short, faults, backlog>>
    /\ UNCHANGED srvVars

\* the same with send() transmitting another number of bytes
ClientInputSendFail(c) ==
    /\ cliPc[c] = "parse"
    /\ sscanf(cliInput[c]).arguments \in {1, 2}
    /\ Fault
    /\ ClientReturn(c, "-1")
    /\ UNCHANGED <<cliMenu, reqsSent, libc, short, backlog, c2s>>
    /\ UNCHANGED srvVars

\* a peer that is not TCP_client.c writes any request record
PeerSend(c, req) ==
    /\ c \in ForeignPeers
    /\ cliPc[c] = "prompt"
    /\ TotalSent < MaxRequests
    /\ ClientSend(c, req)
    /\ UNCHANGED <<cliInput, cliMenu, libc, short, faults, backlog>>
    /\ UNCHANGED srvVars

PeerSendFail(c) ==
    /\ c \in ForeignPeers
    /\ cliPc[c] = "prompt"
    /\ Fault
    /\ ClientReturn(c, "-1")
    /\ UNCHANGED <<cliMenu, reqsSent, libc, short, backlog, c2s>>
    /\ UNCHANGED srvVars

\* recv() of the response, the printing, the loop condition and the close after the loop
ClientRecvResponse(c) ==
    /\ cliPc[c] = "recv_response"
    /\ s2c[c] # <<>>
    /\ IF Head(s2c[c]).keep_going
       THEN /\ cliPc' = [cliPc EXCEPT ![c] = "prompt"]
            /\ cliResp' = [cliResp EXCEPT ![c] = Head(s2c[c])]
            /\ s2c' = [s2c EXCEPT ![c] = Tail(@)]
            /\ UNCHANGED <<cliSock, cliInput, cliReq, cliExit>>
       ELSE ClientReturn(c, "0")
    /\ UNCHANGED <<cliMenu, reqsSent, libc, short, faults, backlog, c2s>>
    /\ UNCHANGED srvVars

\* recv() returns the response up to the terminator of error_msg but less
\* than sizeof(response_msg): the return value is above 0 and the client goes on
ClientRecvResponsePartial(c) ==
    /\ c \in ProgramClients
    /\ cliPc[c] = "recv_response"
    /\ s2c[c] # <<>>
    /\ short[c] = {}
    /\ Fault
    /\ short' = [short EXCEPT ![c] = @ \cup {"client"}]
    /\ IF Head(s2c[c]).keep_going
       THEN /\ cliPc' = [cliPc EXCEPT ![c] = "prompt"]
            /\ cliResp' = [cliResp EXCEPT ![c] = Head(s2c[c])]
            /\ \E rest \in PaddingResponses :
                  s2c' = [s2c EXCEPT ![c] = <<rest>> \o Tail(@)]
            /\ UNCHANGED <<cliSock, cliInput, cliReq, cliExit>>
       ELSE ClientReturn(c, "0")
    /\ UNCHANGED <<cliMenu, reqsSent, libc, backlog, c2s>>
    /\ UNCHANGED srvVars

\* mutant: the failed recv() ends the client with the success status
ClientRecvResponseFail_returns_zero(c) ==
    /\ cliPc[c] = "recv_response"
    /\ ClientRecvFails(c)
    /\ ClientReturn(c, "0")
    /\ UNCHANGED <<cliMenu, reqsSent, libc, short, backlog, c2s>>
    /\ UNCHANGED srvVars

ClientRecvResponseFail(c) ==
    /\ cliPc[c] = "recv_response"
    /\ ClientRecvFails(c)
    /\ ClientReturn(c, "-1")
    /\ UNCHANGED <<cliMenu, reqsSent, libc, short, backlog, c2s>>
    /\ UNCHANGED srvVars

Next ==
    \/ ServerBind
    \/ ServerBindFail
    \/ ServerListen
    \/ ServerListenFail
    \/ ServerAccept
    \/ ServerAcceptFail
    \/ ServerSendMenu
    \/ ServerSendMenuFail
    \/ ServerRecvRequest
    \/ ServerRecvRequestFail
    \/ ServerRecvRequestPartial
    \/ ServerSendResponse
    \/ ServerSendResponseFail
    \/ \E c \in Clients : ClientConnect(c)
    \/ \E c \in Clients : ClientConnectFail(c)
    \/ \E c \in Clients : ClientRecvMenu(c)
    \/ \E c \in Clients : ClientRecvMenuFail(c)
    \/ \E c \in Clients : ClientRecvMenuPartial(c)
    \/ \E c \in Clients, input \in Lines : ClientFgets(c, input)
    \/ \E c \in Clients : ClientInput(c)
    \/ \E c \in Clients : ClientInputSendFail(c)
    \/ \E c \in Clients, req \in Requests : PeerSend(c, req)
    \/ \E c \in Clients : PeerSendFail(c)
    \/ \E c \in Clients : ClientRecvResponse(c)
    \/ \E c \in Clients : ClientRecvResponsePartial(c)
    \/ \E c \in Clients : ClientRecvResponseFail(c)

Spec == Init /\ [][Next]_vars

(***************************************************************************)
(* One pass of the server's loop on every selector and every length from 0  *)
(* to MaxLengthValue, written with and without a leading zero, and on the   *)
(* lengths of LengthTexts that are no such numbers: the server              *)
(* is in recv() on an accepted connection, the request is in flight, and    *)
(* rand() is in any of the states Seeds.                                    *)
(***************************************************************************)
MaxLengthValue == 40
Seeds == {1, 4711, 65536}

Decimal(n) ==
    IF n < 10 THEN <<DigitSeq[n + 1]>>
    ELSE <<DigitSeq[(n \div 10) + 1], DigitSeq[(n % 10) + 1]>>

EngineLengths ==
    {Decimal(n) : n \in 0..MaxLengthValue}
    \cup {<<"0">> \o Decimal(n) : n \in 0..MaxLengthValue}
    \cup LengthTexts

InitEngine ==
    /\ srvPc = "recv_request"
    /\ my_socket = "listening"
    /\ client_socket = "c2"
    /\ password_msg = NoRequest
    /\ \E g \in StackGarbage : response_msg = [NoResponse EXCEPT !.password = g]
    /\ srvExit = Running
    /\ rng \in Seeds
    /\ libc \in AtoiModes
    /\ backlog = <<>>
    /\ srvSock = [c \in Clients |-> IF c = "c2" THEN "open" ELSE "none"]
    /\ cliSock = [c \in Clients |-> "open"]
    /\ s2c = [c \in Clients |-> <<>>]
    /\ \E t \in Types, l \in EngineLengths :
          /\ c2s = [c \in Clients |-> IF c = "c2" THEN <<[type |-> t, length |-> l]>>
                                                  ELSE <<>>]
          /\ cliReq = [c \in Clients |-> IF c = "c2" THEN [type |-> t, length |-> l]
                                                     ELSE NoRequest]
    /\ cliPc = [c \in Clients |-> IF c = "c2" THEN "recv_response" ELSE "connect"]
    /\ cliInput = [c \in Clients |-> NoInput]
    /\ cliResp = [c \in Clients |-> NoResponse]
    /\ cliMenu = [c \in Clients |-> c = "c2"]
    /\ cliExit = [c \in Clients |-> Running]
    /\ menusSent = [c \in Clients |-> IF c = "c2" THEN 1 ELSE 0]
    /\ reqsRead = [c \in Clients |-> 0]
    /\ respsSent = [c \in Clients |-> 0]
    /\ reqsSent = [c \in Clients |-> IF c = "c2" THEN 1 ELSE 0]
    /\ faults = 0
    /\ short = [c \in Clients |-> {}]

NextEngine ==
    \/ ServerRecvRequest
    \/ ServerSendResponse
    \/ \E c \in Clients : ClientRecvResponse(c)

SpecEngine == InitEngine /\ [][NextEngine]_vars

(***************************************************************************)
(* One pass of the client's loop on every line of at most MaxLineLen        *)
(* characters of LineChars: the client has the menu and is at its prompt,   *)
(* before its first request or after the exchange of one of                 *)
(* PreviousRequests, and the server waits in recv().  Before the first      *)
(* response the client's response_msg is not initialized.                   *)
(***************************************************************************)
MaxLineLen == 5
LineChars == {"n", "8", " "}
PromptLines == UNION {[1..k -> LineChars] : k \in 0..MaxLineLen}
PreviousRequests == {[type |-> "n", length |-> <<"8">>],
                     [type |-> "x", length |-> <<"8">>]}

InitPrompt ==
    /\ srvPc = "recv_request"
    /\ my_socket = "listening"
    /\ client_socket = "c1"
    /\ srvExit = Running
    /\ libc \in AtoiModes
    /\ backlog = <<>>
    /\ srvSock = [c \in Clients |-> IF c = "c1" THEN "open" ELSE "none"]
    /\ cliSock = [c \in Clients |-> "open"]
    /\ s2c = [c \in Clients |-> <<>>]
    /\ c2s = [c \in Clients |-> <<>>]
    /\ cliPc = [c \in Clients |-> IF c = "c1" THEN "prompt" ELSE "connect"]
    /\ cliInput = [c \in Clients |-> NoInput]
    /\ cliMenu = [c \in Clients |-> c = "c1"]
    /\ cliExit = [c \in Clients |-> Running]
    /\ menusSent = [c \in Clients |-> IF c = "c1" THEN 1 ELSE 0]
    /\ faults = 0
    /\ short = [c \in Clients |-> {}]
    /\ \/ /\ password_msg = NoRequest
          /\ \E g \in StackGarbage : response_msg = [NoResponse EXCEPT !.password = g]
          /\ rng = 1
          /\ cliReq = [c \in Clients |-> NoRequest]
          /\ \E b \in BOOLEAN :
                cliResp = [c \in Clients |->
                              IF c = "c1" THEN [NoResponse EXCEPT !.keep_going = b]
                                          ELSE NoResponse]
          /\ reqsRead = [c \in Clients |-> 0]
          /\ respsSent = [c \in Clients |-> 0]
          /\ reqsSent = [c \in Clients |-> 0]
       \/ \E prev \in PreviousRequests :
             LET out == ProcessRequest(prev, NoResponse, 1, libc, "GARBAGE")
             IN  /\ password_msg = prev
                 /\ response_msg = out.resp
                 /\ rng = out.rng
                 /\ cliReq = [c \in Clients |-> IF c = "c1" THEN prev ELSE NoRequest]
                 /\ cliResp = [c \in Clients |-> IF c = "c1" THEN out.resp
                                                             ELSE NoResponse]
                 /\ reqsRead = [c \in Clients |-> IF c = "c1" THEN 1 ELSE 0]
                 /\ respsSent = [c \in Clients |-> IF c = "c1" THEN 1 ELSE 0]
                 /\ reqsSent = [c \in Clients |-> IF c = "c1" THEN 1 ELSE 0]

NextPrompt ==
    \/ \E input \in PromptLines : ClientFgets("c1", input)
    \/ ClientInput("c1")
    \/ ClientInputSendFail("c1")
    \/ ServerRecvRequest
    \/ ServerSendResponse

SpecPrompt == InitPrompt /\ [][NextPrompt]_vars

(***************************************************************************)
(* Vocabulary of the properties.  The decimal value of a digit string is    *)
(* taken from its digits, not from atoi().                                  *)
(***************************************************************************)
RECURSIVE StripZeros(_)
StripZeros(ds) ==
    IF ds # <<>> /\ Head(ds) = "0" THEN StripZeros(Tail(ds)) ELSE ds

AllDigits(l) == \A i \in DOMAIN l : l[i] \in Range(DigitSeq)

\* the decimal value of a digit string of at most two significant digits
SmallValue(d) ==
    IF Len(d) = 0 THEN 0
    ELSE IF Len(d) = 1 THEN DigitVal(d[1])
    ELSE 10 * DigitVal(d[1]) + DigitVal(d[2])

\* the digit string l has a decimal value in [lo, hi], for hi < 100
ValueIn(l, lo, hi) ==
    LET d == StripZeros(l)
    IN  Len(d) <= 2 /\ SmallValue(d) >= lo /\ SmallValue(d) <= hi

ValueOf(l) == SmallValue(StripZeros(l))

GenerationSelectors == {"n", "a", "m", "s"}
Sentinels == {"q", "Q"}

\* the server has built the response to the request in password_msg and is about to send it
Responding == srvPc = "send_response"

Alphabet(t) ==
    CASE t = "n" -> Range(DigitSeq)
      [] t = "a" -> Range(LowerSeq)
      [] t = "m" -> Range(LowerSeq) \cup Range(DigitSeq)
      [] t = "s" -> Range(LowerSeq) \cup Range(UpperSeq) \cup Range(DigitSeq)
                    \cup Range(SymbolSeq)

Kind(resp) ==
    CASE ~resp.keep_going                 -> "quit"
      [] resp.error_msg = TypeErrorMsg    -> "type_error"
      [] resp.error_msg = LengthErrorMsg  -> "length_error"
      [] OTHER                            -> "success"

IsTypeRejection(resp) ==
    /\ resp.keep_going
    /\ resp.password = <<>>
    /\ resp.request_error
    /\ resp.error_msg = TypeErrorMsg

IsLengthRejection(resp) ==
    /\ resp.keep_going
    /\ resp.password = <<>>
    /\ resp.request_error
    /\ resp.error_msg = LengthErrorMsg

(***************************************************************************)
(* C1: in every response the server sends, keep_going is false exactly when *)
(* the selector of the request just received is 'q' or 'Q'; no rejection    *)
(* and no other request content makes it false.                             *)
(***************************************************************************)
C1_ContinueFalseIffSentinel ==
    Responding => (~response_msg.keep_going <=> password_msg.type \in Sentinels)

C1_Witness ==
    /\ Responding
    /\ password_msg.type = "Q"
    /\ ~response_msg.keep_going

(***************************************************************************)
(* C2: every response the server sends has exactly one of password and      *)
(* error_msg non-empty when keep_going is true, and both empty when         *)
(* keep_going is false.                                                     *)
(***************************************************************************)
C2_ExactlyOneOfPasswordAndError ==
    Responding =>
        IF response_msg.keep_going
        THEN (response_msg.password # <<>>) # (response_msg.error_msg # "")
        ELSE response_msg.password = <<>> /\ response_msg.error_msg = ""

(***************************************************************************)
(* C3: a request with selector n, a, m or s and a digit string of value L   *)
(* in [6,32] is answered with keep_going, no error, an empty error_msg and  *)
(* a password of exactly L characters of the class's alphabet: the digits,  *)
(* a-z, a-z with the digits, and for s the 72 characters of charset.        *)
(***************************************************************************)
C3_Request ==
    /\ Responding
    /\ password_msg.type \in GenerationSelectors
    /\ AllDigits(password_msg.length)
    /\ ValueIn(password_msg.length, MIN_PASSWORD_LENGTH, MAX_PASSWORD_LENGTH)

C3_Generated ==
    /\ response_msg.keep_going
    /\ ~response_msg.request_error
    /\ response_msg.error_msg = ""
    /\ Len(response_msg.password) = ValueOf(password_msg.length)
    /\ Range(response_msg.password) \subseteq Alphabet(password_msg.type)

C3_PasswordOfClassAndLength ==
    C3_Request =>
        /\ C3_Generated
        /\ Cardinality(Alphabet("s")) = 72

C3_Witness ==
    /\ C3_Request
    /\ password_msg.type = "s"
    /\ password_msg.length = <<"3","2">>
    /\ Len(response_msg.password) = 32

\* C3 as stated: the alphabet of the secure class has 74 characters
C3_AsStated ==
    C3_Request =>
        /\ C3_Generated
        /\ Cardinality(Alphabet("s")) = 74

(***************************************************************************)
(* C4: a request whose selector is not an allowed class and whose length is *)
(* invalid too is answered with the type error, never the length error.     *)
(***************************************************************************)
InvalidLength(l) ==
    ~(AllDigits(l) /\ ValueIn(l, MIN_PASSWORD_LENGTH, MAX_PASSWORD_LENGTH))

C4_TypeErrorBeforeLengthError ==
    /\ Responding
    /\ password_msg.type \notin GenerationSelectors
    /\ password_msg.type \notin Sentinels
    /\ InvalidLength(password_msg.length)
    => response_msg.error_msg = TypeErrorMsg

(***************************************************************************)
(* C5: every selector byte other than n, a, m, s and the sentinel, the      *)
(* byte 0 included, is answered with the InvalidType rejection whatever the *)
(* length.                                                                  *)
(***************************************************************************)
C5_OtherSelectorsRejected ==
    /\ Responding
    /\ password_msg.type \notin GenerationSelectors
    /\ password_msg.type \notin Sentinels
    => IsTypeRejection(response_msg)

(***************************************************************************)
(* C6: a request with selector N, A, M, S or Q gets the same kind of        *)
(* response as the request with the lowercase selector and the same length. *)
(***************************************************************************)
C6_CaseInsensitive ==
    Responding =>
        \A uninit \in UninitTypes :
            Kind(response_msg) =
                Kind(ProcessRequest([password_msg EXCEPT !.type = tolower(@)],
                                    response_msg, rng, libc, uninit).resp)

(***************************************************************************)
(* C7: for selectors n, a, m, s and a length made of digits only, the       *)
(* length check accepts exactly when the decimal value is in [6,32].        *)
(***************************************************************************)
C7_AcceptedIffInRange ==
    /\ Responding
    /\ password_msg.type \in GenerationSelectors
    /\ AllDigits(password_msg.length)
    => (~response_msg.request_error
          <=> ValueIn(password_msg.length, MIN_PASSWORD_LENGTH, MAX_PASSWORD_LENGTH))

(***************************************************************************)
(* C8: for selectors n, a, m, s, a length that is empty or holds a          *)
(* character that is no digit is answered with the length rejection.        *)
(***************************************************************************)
C8_BadLengthText ==
    /\ Responding
    /\ password_msg.type \in GenerationSelectors
    /\ (password_msg.length = <<>> \/ ~AllDigits(password_msg.length))

C8_MalformedLengthRejected == C8_BadLengthText => IsLengthRejection(response_msg)

C8_Witness ==
    /\ C8_BadLengthText
    /\ password_msg.length = <<"8","x">>
    /\ IsLengthRejection(response_msg)

(***************************************************************************)
(* C9: a request with the sentinel is answered with keep_going false, an    *)
(* empty password, no error and an empty error_msg, whatever its length.    *)
(***************************************************************************)
C9_SentinelEndsSession ==
    Responding /\ password_msg.type \in Sentinels =>
        response_msg = [keep_going |-> FALSE, password |-> <<>>,
                        request_error |-> FALSE, error_msg |-> ""]

C9_Witness ==
    /\ Responding
    /\ password_msg.type = "q"
    /\ password_msg.length = <<"a","b","c">>
    /\ ~response_msg.keep_going

(***************************************************************************)
(* C10: on each accepted connection the server sends the menu once and      *)
(* before it reads a request of that connection, and a client has received  *)
(* the menu before it sends its first request.                              *)
(***************************************************************************)
C10_MenuOnceAndFirst ==
    \A c \in Clients :
        /\ menusSent[c] <= 1
        /\ reqsRead[c] > 0 => menusSent[c] = 1
        /\ client_socket = c /\ srvPc \in {"recv_request", "send_response"}
              => menusSent[c] = 1
        /\ reqsSent[c] > 0 => cliMenu[c]

C10_Witness ==
    /\ reqsRead["c1"] = 2
    /\ menusSent["c1"] = 1
    /\ cliMenu["c1"]

\* the server is inside a session: between accept() and the close of client_socket
InSession == srvPc \in {"send_menu", "recv_request", "send_response"}

(***************************************************************************)
(* C11: no step taken inside a session, a failed or zero-byte recv() and a  *)
(* short send() included, ends the server process; when the step closes the *)
(* connection the server is back at accept().                               *)
(***************************************************************************)
C11_FaultEndsOnlyTheConnection ==
    [][InSession =>
          /\ srvExit' = Running
          /\ srvSock'[client_socket] = "closed" => srvPc' = "accept"]_vars

(***************************************************************************)
(* C12: when the server has sent a response with keep_going false it closes *)
(* the connection and is at accept() with the listening socket open; the    *)
(* connection it accepts next has had no menu and no request read, and the  *)
(* next thing the server does on it is to send the menu.                    *)
(***************************************************************************)
C12_ClosedSessionReturnsToAccept ==
    [][/\ (/\ srvPc = "send_response"
           /\ srvPc' # srvPc
           /\ ~response_msg.keep_going
           /\ faults' = faults)
          => /\ srvPc' = "accept"
             /\ srvExit' = Running
             /\ my_socket' = "listening"
             /\ srvSock'[client_socket] = "closed"
       /\ (/\ srvPc = "accept"
           /\ srvPc' # srvPc
           /\ srvExit' = Running)
          => /\ srvPc' = "send_menu"
             /\ srvSock'[client_socket'] = "open"
             /\ menusSent[client_socket'] = 0
             /\ reqsRead[client_socket'] = 0]_vars

\* a session was ended by keep_going false and the next client has its menu
C12_Witness ==
    \E c, d \in Clients :
        /\ c # d
        /\ cliExit[c] = "0"
        /\ srvSock[c] = "closed"
        /\ srvExit = Running
        /\ client_socket = d
        /\ menusSent[d] = 1
        /\ cliMenu[d]

(***************************************************************************)
(* C13: an end whose recv() returned more than 0 and less than the size of  *)
(* the record has treated it as a fault: the server has closed that         *)
(* connection and builds no response from the record, the client has        *)
(* closed its socket and ended with the failure status.                     *)
(***************************************************************************)
C13_PartialReceiveIsFatal ==
    \A c \in Clients :
        /\ "server" \in short[c] =>
              /\ srvSock[c] = "closed"
              /\ ~(InSession /\ client_socket = c)
        /\ "client" \in short[c] =>
              /\ cliSock[c] = "closed"
              /\ cliPc[c] = "done"
              /\ cliExit[c] = "-1"

(***************************************************************************)
(* C14: a send() that transmits another number of bytes than the size of    *)
(* the record is handled like a failed recv(): the sender closes its end of *)
(* the connection in the same step and puts no record on it, and an end     *)
(* that is closed stays closed and sends nothing more.                      *)
(***************************************************************************)
ServerSendFaultStep ==
    /\ srvPc \in {"send_menu", "send_response"}
    /\ srvPc' # srvPc
    /\ faults' # faults

ServerRecvFaultStep ==
    /\ srvPc = "recv_request"
    /\ srvPc' \notin {"recv_request", "send_response"}

ClientSendFaultStep(c) ==
    /\ cliPc[c] \in {"prompt", "parse"}
    /\ cliPc'[c] \notin {"prompt", "parse"}
    /\ faults' # faults

ClientRecvFaultStep(c) ==
    /\ cliPc[c] \in {"recv_menu", "recv_response"}
    /\ cliPc'[c] = "done"
    /\ cliExit'[c] = "-1"

C14_ShortSendIsFatal ==
    [][/\ ServerSendFaultStep \/ ServerRecvFaultStep =>
             /\ srvSock'[client_socket] = "closed"
             /\ s2c' = s2c
             /\ menusSent' = menusSent
       /\ \A c \in Clients :
             /\ ClientSendFaultStep(c) \/ ClientRecvFaultStep(c) =>
                   /\ cliSock'[c] = "closed"
                   /\ c2s'[c] = c2s[c]
                   /\ reqsSent'[c] = reqsSent[c]
             /\ srvSock[c] = "closed" =>
                   /\ srvSock'[c] = "closed"
                   /\ Len(s2c'[c]) <= Len(s2c[c])
             /\ cliSock[c] = "closed" =>
                   /\ cliSock'[c] = "closed"
                   /\ reqsSent'[c] = reqsSent[c]
                   /\ Len(c2s'[c]) <= Len(c2s[c])]_vars

\* the send of the menu failed, and the send of a request failed
C14_Witness ==
    \/ /\ client_socket # NoClient
       /\ menusSent[client_socket] = 0
       /\ srvSock[client_socket] = "closed"
    \/ /\ cliMenu["c1"]
       /\ reqsSent["c1"] = 0
       /\ cliSock["c1"] = "closed"
       /\ srvSock["c1"] = "open"

(***************************************************************************)
(* C15: when the server process has ended, on whatever path, the listening  *)
(* socket it acquired at startup has been closed by it.                     *)
(***************************************************************************)
C15_ListeningSocketClosedOnExit ==
    srvExit # Running => my_socket = "closed"

(***************************************************************************)
(* C16: the server's end of a connection is open only while the server is   *)
(* in the session of that connection, a client that has left its loop or    *)
(* ended on a fault has closed its socket, and an end that is closed puts   *)
(* no request, menu or response on the connection.                          *)
(***************************************************************************)
C16_EndsClosed ==
    \A c \in Clients :
        /\ srvSock[c] = "open" => srvExit = Running /\ InSession /\ client_socket = c
        /\ cliPc[c] = "done" => cliSock[c] = "closed"
        /\ cliExit[c] # Running => cliPc[c] = "done"

C16_NothingSentAfterClose ==
    \A c \in Clients :
        /\ srvSock[c] = "closed" =>
              /\ Len(s2c'[c]) <= Len(s2c[c])
              /\ menusSent'[c] = menusSent[c]
        /\ cliSock[c] = "closed" =>
              /\ Len(c2s'[c]) <= Len(c2s[c])
              /\ reqsSent'[c] = reqsSent[c]

C16_SessionEndClosesBothEnds ==
    []C16_EndsClosed /\ [][C16_NothingSentAfterClose]_vars

\* a session ended by keep_going false, and one ended by a fault on the server
C16_Witness ==
    /\ cliExit["c2"] = "0"
    /\ srvSock["c2"] = "closed"
    /\ cliSock["c2"] = "closed"
    /\ srvSock["c1"] = "closed"
    /\ srvExit = "-1"

(***************************************************************************)
(* C17: the client leaves its loop only with the failure status of a        *)
(* transport fault, or when it waits for the response to a request it sent  *)
(* with the sentinel and receives it; an answer received while the request  *)
(* sent was no sentinel takes the client back to the prompt.                *)
(***************************************************************************)
ClientLeavesLoop(c) ==
    /\ cliPc[c] \in {"prompt", "parse", "recv_response"}
    /\ cliPc'[c] = "done"

C17_ClientLeavesOnlyAfterSentinel ==
    [][\A c \in ProgramClients :
          ClientLeavesLoop(c) =>
              \/ cliExit'[c] = "-1"
              \/ /\ cliPc[c] = "recv_response"
                 /\ cliReq[c].type \in Sentinels
                 /\ s2c[c] # <<>>]_vars

\* the words of a line: its maximal runs of characters other than the space
RECURSIVE Split(_, _)
Split(l, word) ==
    IF l = <<>> THEN (IF word = <<>> THEN <<>> ELSE <<word>>)
    ELSE IF Head(l) = " "
         THEN (IF word = <<>> THEN <<>> ELSE <<word>>) \o Split(Tail(l), <<>>)
         ELSE Split(Tail(l), Append(word, Head(l)))

Tokens(l) == Split(l, <<>>)

\* the client goes on from the line it read and does not end on a fault
LineRead(c) ==
    /\ cliPc[c] = "parse"
    /\ cliPc'[c] \notin {"parse", "done"}

(***************************************************************************)
(* C18: when the line read has no token or three or more, the client stays  *)
(* at its prompt with keep_going true, whatever response_msg held; nothing  *)
(* is put on the connection and the server's state, the sockets and the     *)
(* count of requests sent are unchanged.                                    *)
(***************************************************************************)
C18_WrongTokenCountReprompts ==
    [][\A c \in ProgramClients :
          LineRead(c) /\ Len(Tokens(cliInput[c])) \notin {1, 2} =>
              /\ cliPc'[c] = "prompt"
              /\ cliResp'[c].keep_going
              /\ c2s' = c2s
              /\ s2c' = s2c
              /\ reqsSent' = reqsSent
              /\ cliSock' = cliSock
              /\ cliExit' = cliExit
              /\ cliMenu' = cliMenu
              /\ UNCHANGED srvVars]_vars

\* "n n 8" was typed after a password was received for the request ("n", "8")
C18_Witness ==
    /\ cliPc["c1"] = "prompt"
    /\ cliReq["c1"] = [type |-> "n", length |-> <<"n">>]
    /\ cliResp["c1"].password # <<>>
    /\ reqsSent["c1"] = 1
    /\ reqsRead["c1"] = 1
    /\ c2s["c1"] = <<>>

(***************************************************************************)
(* C19: when the line read is a one-character selector, alone or followed   *)
(* by a second token, the client sends exactly one request: its selector is *)
(* that character and its length is the second token as typed, whatever it  *)
(* holds, or "8" when there is no second token.                             *)
(***************************************************************************)
WellFormed(l) ==
    /\ Len(Tokens(l)) \in {1, 2}
    /\ Len(Tokens(l)[1]) = 1

RequestOf(l) ==
    [type |-> Tokens(l)[1][1],
     length |-> IF Len(Tokens(l)) = 2 THEN Tokens(l)[2] ELSE <<"8">>]

C19_WellFormedLineForwarded ==
    [][\A c \in ProgramClients :
          LineRead(c) /\ WellFormed(cliInput[c]) =>
              /\ reqsSent'[c] = reqsSent[c] + 1
              /\ cliReq'[c] = RequestOf(cliInput[c])
              /\ cliPc'[c] = "recv_response"
              /\ c2s'[c] = Append(c2s[c], RequestOf(cliInput[c]))]_vars

\* a length that is no number was forwarded and reached the server
C19_Witness ==
    /\ Responding
    /\ password_msg = [type |-> "n", length |-> <<"n", "8">>]
    /\ cliReq["c1"] = password_msg
    /\ reqsSent["c1"] = 1

(***************************************************************************)
(* C20: a step of the client on which a socket call fails, or on which it   *)
(* ends while there is nothing for it to read, ends the client process with *)
(* the failure status and its socket closed and puts no request on the      *)
(* connection; a client that has ended stays ended and sends nothing.       *)
(***************************************************************************)
ClientFaultStep(c) ==
    /\ short'[c] = short[c]
    /\ \/ cliPc'[c] # cliPc[c] /\ faults' # faults
       \/ cliPc[c] # "done" /\ cliPc'[c] = "done" /\ s2c[c] = <<>>

C20_ClientFaultEndsProcess ==
    [][\A c \in ProgramClients :
          /\ ClientFaultStep(c) =>
                /\ cliPc'[c] = "done"
                /\ cliExit'[c] = "-1"
                /\ cliSock'[c] = "closed"
                /\ reqsSent'[c] = reqsSent[c]
                /\ c2s'[c] = c2s[c]
          /\ cliPc[c] = "done" =>
                /\ cliPc'[c] = "done"
                /\ cliExit'[c] = cliExit[c]
                /\ cliSock'[c] = "closed"
                /\ reqsSent'[c] = reqsSent[c]]_vars

\* the client ended on a fault while it waited for the response to its request
C20_Witness ==
    /\ cliExit["c1"] = "-1"
    /\ cliSock["c1"] = "closed"
    /\ cliMenu["c1"]
    /\ reqsSent["c1"] = 1
    /\ reqsRead["c1"] = 1

(***************************************************************************)
(* The records on the wire.  send(socket, &record, sizeof(record)) writes  *)
(* the object representation of the sender's struct and recv() copies the  *)
(* bytes into the receiver's struct, each side laying the fields out as    *)
(* its own protocol.h declares them.  A byte is a one-character string;    *)
(* false is the zero byte, true is SOH.                                    *)
(***************************************************************************)
BUFFER_SIZE == 1024
ERROR_MSG_SIZE == 50
SOH == "SOH"

\* TCP_client/src/libs/protocol/protocol.h
ClientRequestLayout ==
    << [name |-> "type", kind |-> "char", size |-> 1],
       [name |-> "length", kind |-> "text", size |-> BUFFER_SIZE] >>

ClientResponseLayout ==
    << [name |-> "keep_going", kind |-> "bool", size |-> 1],
       [name |-> "password", kind |-> "text", size |-> MAX_PASSWORD_LENGTH + 1],
       [name |-> "request_error", kind |-> "bool", size |-> 1],
       [name |-> "error_msg", kind |-> "message", size |-> ERROR_MSG_SIZE] >>

\* a layout whose two flags changed places
ServerResponseLayout_flags_swapped ==
    << [name |-> "request_error", kind |-> "bool", size |-> 1],
       [name |-> "password", kind |-> "text", size |-> MAX_PASSWORD_LENGTH + 1],
       [name |-> "keep_going", kind |-> "bool", size |-> 1],
       [name |-> "error_msg", kind |-> "message", size |-> ERROR_MSG_SIZE] >>

\* TCP_server/src/libs/protocol/protocol.h
ServerRequestLayout ==
    << [name |-> "type", kind |-> "char", size |-> 1],
       [name |-> "length", kind |-> "text", size |-> BUFFER_SIZE] >>

ServerResponseLayout ==
    << [name |-> "keep_going", kind |-> "bool", size |-> 1],
       [name |-> "password", kind |-> "text", size |-> MAX_PASSWORD_LENGTH + 1],
       [name |-> "request_error", kind |-> "bool", size |-> 1],
       [name |-> "error_msg", kind |-> "message", size |-> ERROR_MSG_SIZE] >>

\* the characters of the two string literals copied into error_msg
TypeErrorText ==
    <<"T", "h", "e", " ", "t", "y", "p", "e", " ", "i", "n", "s", "e", "r",
      "t", "e", "d", " ", "i", "s", " ", "n", "o", "t", " ", "v", "a", "l",
      "i", "d", ".", "\n">>

LengthErrorText ==
    <<"T", "h", "e", " ", "l", "e", "n", "g", "t", "h", " ", "f", "o", "r",
      " ", "t", "h", "e", " ", "p", "a", "s", "s", "w", "o", "r", "d", " ",
      "i", "s", " ", "n", "o", "t", " ", "v", "a", "l", "i", "d", ".",
      "\n">>

MessageText(msg) ==
    CASE msg = TypeErrorMsg -> TypeErrorText
      [] msg = LengthErrorMsg -> LengthErrorText
      [] OTHER -> <<>>

MessageOf(chars) ==
    CASE chars = TypeErrorText -> TypeErrorMsg
      [] chars = LengthErrorText -> LengthErrorMsg
      [] chars = <<>> -> ""
      [] OTHER -> "?"

\* a char array holding a string: its characters, the terminator, and
\* whatever the array held behind the terminator
TextImage(chars, size, pad) ==
    SubSeq(chars \o <<NUL>> \o [i \in 1..size |-> pad], 1, size)

RECURSIVE CString(_)
CString(bytes) ==
    IF bytes = <<>> \/ Head(bytes) = NUL THEN <<>>
    ELSE <<Head(bytes)>> \o CString(Tail(bytes))

FieldImage(value, field, pad) ==
    CASE field.kind = "char" -> <<value>>
      [] field.kind = "bool" -> <<IF value THEN SOH ELSE NUL>>
      [] field.kind = "text" -> TextImage(value, field.size, pad)
      [] field.kind = "message" -> TextImage(MessageText(value), field.size, pad)

FieldValue(bytes, field) ==
    CASE field.kind = "char" -> bytes[1]
      [] field.kind = "bool" -> bytes[1] # NUL
      [] field.kind = "text" -> CString(bytes)
      [] field.kind = "message" -> MessageOf(CString(bytes))

RECURSIVE Encode(_, _, _)
Encode(record, layout, pad) ==
    IF layout = <<>> THEN <<>>
    ELSE FieldImage(record[Head(layout).name], Head(layout), pad)
         \o Encode(record, Tail(layout), pad)

RECURSIVE OffsetOf(_, _)
OffsetOf(layout, i) ==
    IF i = 1 THEN 0 ELSE OffsetOf(layout, i - 1) + layout[i - 1].size

Sizeof(layout) == OffsetOf(layout, Len(layout) + 1)

Decode(image, layout) ==
    [n \in {layout[i].name : i \in DOMAIN layout} |->
        LET i == CHOOSE j \in DOMAIN layout : layout[j].name = n
        IN  FieldValue(SubSeq(image, OffsetOf(layout, i) + 1,
                              OffsetOf(layout, i) + layout[i].size),
                       layout[i])]

(***************************************************************************)
(* One exchange with the bytes on the wire: the client parses a line and   *)
(* sends its request record, the server receives it into its own struct,   *)
(* answers, and the client receives the response into its own struct.      *)
(***************************************************************************)
CodecPads == {NUL, "~"}
CodecTypes == {"n", "a", "m", "s", "S", "q", "x"}
CodecLengths == { <<"6">>, <<"8">>, <<"3","2">>, <<"3","3">>, <<"0","0","6">>,
                  <<"a","b","c">>, <<"8","x">>, Wide32 }
CodecLines == {<<t>> : t \in CodecTypes}
              \cup {<<t, " ">> \o l : t \in CodecTypes, l \in CodecLengths}

InitCodec ==
    /\ srvPc = "recv_request"
    /\ my_socket = "listening"
    /\ client_socket = "c1"
    /\ password_msg = NoRequest
    /\ \E g \in StackGarbage : response_msg = [NoResponse EXCEPT !.password = g]
    /\ srvExit = Running
    /\ rng \in Seeds
    /\ libc \in AtoiModes
    /\ backlog = <<>>
    /\ srvSock = [c \in Clients |-> IF c = "c1" THEN "open" ELSE "none"]
    /\ cliSock = [c \in Clients |-> IF c = "c1" THEN "open" ELSE "none"]
    /\ s2c = [c \in Clients |-> <<>>]
    /\ c2s = [c \in Clients |-> <<>>]
    /\ cliReq = [c \in Clients |-> NoRequest]
    /\ cliPc = [c \in Clients |-> IF c = "c1" THEN "parse" ELSE "connect"]
    /\ \E input \in CodecLines :
          cliInput = [c \in Clients |-> IF c = "c1" THEN input ELSE NoInput]
    /\ cliResp = [c \in Clients |-> NoResponse]
    /\ cliMenu = [c \in Clients |-> c = "c1"]
    /\ cliExit = [c \in Clients |-> Running]
    /\ menusSent = [c \in Clients |-> IF c = "c1" THEN 1 ELSE 0]
    /\ reqsRead = [c \in Clients |-> 0]
    /\ respsSent = [c \in Clients |-> 0]
    /\ reqsSent = [c \in Clients |-> 0]
    /\ faults = 0
    /\ short = [c \in Clients |-> {}]

\* TCP_client.c: sscanf, the default length, send(&password_msg, sizeof)
CodecClientSend(c) ==
    /\ cliPc[c] = "parse"
    /\ LET p == sscanf(cliInput[c])
           req == [type |-> p.type,
                   length |-> IF p.arguments = 1 THEN DefaultLength ELSE p.length]
       IN  /\ p.arguments \in {1, 2}
           /\ cliReq' = [cliReq EXCEPT ![c] = req]
           /\ \E pad \in CodecPads :
                 c2s' = [c2s EXCEPT ![c] = Append(@, Encode(req, ClientRequestLayout, pad))]
    /\ cliInput' = [cliInput EXCEPT ![c] = NoInput]
    /\ reqsSent' = [reqsSent EXCEPT ![c] = @ + 1]
    /\ cliPc' = [cliPc EXCEPT ![c] = "recv_response"]
    /\ UNCHANGED <<cliSock, cliResp, cliMenu, cliExit, libc, short, faults, backlog, s2c>>
    /\ UNCHANGED srvVars

\* TCP_server.c: recv(&password_msg, sizeof) and the handling of the request
CodecServerRecv ==
    /\ srvPc = "recv_request"
    /\ c2s[client_socket] # <<>>
    /\ Len(Head(c2s[client_socket])) = Sizeof(ServerRequestLayout)
    /\ \E uninit \in UninitTypes :
          LET req == Decode(Head(c2s[client_socket]), ServerRequestLayout)
              out == ProcessRequest(req, response_msg, rng, libc, uninit)
          IN  /\ ClassOf(req.type, "GARBAGE") # "GARBAGE" => uninit = "GARBAGE"
              /\ password_msg' = req
              /\ response_msg' = out.resp
              /\ rng' = out.rng
    /\ c2s' = [c2s EXCEPT ![client_socket] = Tail(@)]
    /\ reqsRead' = [reqsRead EXCEPT ![client_socket] = @ + 1]
    /\ srvPc' = "send_response"
    /\ UNCHANGED <<my_socket, client_socket, srvExit, libc, short, faults, backlog, srvSock,
                   s2c, menusSent, respsSent>>
    /\ UNCHANGED cliVars

\* TCP_server.c: send(&response_msg, sizeof) and the loop condition
CodecServerSend ==
    /\ srvPc = "send_response"
    /\ \E pad \in CodecPads :
          s2c' = [s2c EXCEPT ![client_socket] =
                     Append(@, Encode(response_msg, ServerResponseLayout, pad))]
    /\ IF response_msg.keep_going
       THEN /\ srvPc' = "recv_request"
            /\ UNCHANGED srvSock
       ELSE /\ srvPc' = "accept"
            /\ srvSock' = [srvSock EXCEPT ![client_socket] = "closed"]
    /\ UNCHANGED <<my_socket, client_socket, password_msg, response_msg, srvExit,
                   rng, libc, short, faults, backlog, menusSent, reqsRead, c2s>>
    /\ respsSent' = [respsSent EXCEPT ![client_socket] = @ + 1]
    /\ UNCHANGED cliVars

\* TCP_client.c: recv(&response_msg, sizeof), the loop condition and the exit
CodecClientRecv(c) ==
    /\ cliPc[c] = "recv_response"
    /\ s2c[c] # <<>>
    /\ Len(Head(s2c[c])) = Sizeof(ClientResponseLayout)
    /\ LET resp == Decode(Head(s2c[c]), ClientResponseLayout)
       IN  IF resp.keep_going
           THEN /\ cliPc' = [cliPc EXCEPT ![c] = "prompt"]
                /\ cliResp' = [cliResp EXCEPT ![c] = resp]
                /\ s2c' = [s2c EXCEPT ![c] = Tail(@)]
                /\ UNCHANGED <<cliSock, cliInput, cliReq, cliExit>>
           ELSE ClientReturn(c, "0")
    /\ UNCHANGED <<cliMenu, reqsSent, libc, short, faults, backlog, c2s>>
    /\ UNCHANGED srvVars

NextCodec ==
    \/ CodecClientSend("c1")
    \/ CodecServerRecv
    \/ CodecServerSend
    \/ CodecClientRecv("c1")

SpecCodec == InitCodec /\ [][NextCodec]_vars

\* the response record is on the wire, or the client holds it at its prompt
Arrived(c) == s2c[c] # <<>>
Received(c) == cliPc[c] = "prompt" /\ reqsSent[c] > 0

\* C21: a request or response record sent whole by one peer and received
\* whole by the other is equal to the sender's record in every field, and the
\* two peers declare the same fields in the same order with the same sizes.
C21_RoundTrip ==
    /\ ClientRequestLayout = ServerRequestLayout
    /\ ClientResponseLayout = ServerResponseLayout
    /\ srvPc = "send_response" => password_msg = cliReq["c1"]
    /\ Arrived("c1") => Decode(Head(s2c["c1"]), ClientResponseLayout) = response_msg
    /\ Received("c1") => cliResp["c1"] = response_msg

C21_Witness ==
    /\ Received("c1")
    /\ password_msg = cliReq["c1"]
    /\ password_msg.length = Wide32
    /\ cliResp["c1"].request_error
    /\ cliResp["c1"].error_msg = LengthErrorMsg

\* the response about to be sent was built by the branch that calls
\* generate_password (TCP_server.c lines 180-200)
GeneratorInvoked ==
    /\ Responding
    /\ keep_generating(password_msg.type, "q")
    /\ control_type(AllowedTypes, password_msg.type)
    /\ control_length(password_msg.length, MIN_PASSWORD_LENGTH,
                      MAX_PASSWORD_LENGTH, libc)

(***************************************************************************)
(* C22: whenever the generator is invoked, the switch of the same iteration *)
(* assigned one of the four classes to password_type: every selector that   *)
(* passes control_type matches a case.                                      *)
(***************************************************************************)
C22_ClassAssignedBeforeGeneration ==
    GeneratorInvoked => ClassOf(password_msg.type, "GARBAGE") \in PasswordType

(***************************************************************************)
(* C23: within a session requests and responses alternate.  The responses   *)
(* sent on the connection are as many as the requests read on it, less the  *)
(* one being answered; a response is sent only by the step that answers the *)
(* request just read, and a request is read only when every request read    *)
(* before it was answered.                                                  *)
(***************************************************************************)
C23_Balance ==
    InSession =>
        reqsRead[client_socket] =
            respsSent[client_socket] + (IF srvPc = "send_response" THEN 1 ELSE 0)

C23_Steps ==
    \A c \in Clients :
        /\ respsSent'[c] # respsSent[c] =>
              /\ srvPc = "send_response" /\ client_socket = c
              /\ respsSent'[c] = respsSent[c] + 1
              /\ reqsRead[c] = respsSent'[c]
              /\ reqsRead'[c] = reqsRead[c]
        /\ reqsRead'[c] # reqsRead[c] =>
              /\ srvPc = "recv_request" /\ client_socket = c
              /\ reqsRead'[c] = reqsRead[c] + 1
              /\ respsSent[c] = reqsRead[c]
              /\ respsSent'[c] = respsSent[c]
              /\ srvPc' = "send_response"

C23_RequestsAndResponsesAlternate == []C23_Balance /\ [][C23_Steps]_vars

C23_Witness ==
    /\ srvPc = "recv_request"
    /\ client_socket = "c1"
    /\ reqsRead["c1"] = 2
    /\ respsSent["c1"] = 2
    /\ reqsSent["c1"] = 2

\* what a response holds apart from the characters of its password
Shape(resp) ==
    [keep_going    |-> resp.keep_going,
     request_error |-> resp.request_error,
     error_msg     |-> resp.error_msg,
     length        |-> Len(resp.password)]

\* what the response buffer may hold when a request arrives: nothing yet, or
\* what the stack held
EarlierResponses == {[NoResponse EXCEPT !.password = g] : g \in StackGarbage}

(***************************************************************************)
(* C24: keep_going, request_error, error_msg and the length of the password *)
(* of a response are those the same request gets after any other history:   *)
(* the response built for password_msg from the buffers as the earlier      *)
(* requests left them has the shape of the one built from any other         *)
(* content of the buffers.                                                  *)
(***************************************************************************)
C24_ResponseDeterminedByRequest ==
    Responding =>
        \A earlier \in EarlierResponses, uninit \in UninitTypes :
            (ClassOf(password_msg.type, "GARBAGE") # "GARBAGE" => uninit = "GARBAGE")
            => Shape(response_msg)
                 = Shape(ProcessRequest(password_msg, earlier, rng, libc, uninit).resp)

(***************************************************************************)
(* The system when no socket call fails: the steps of Spec that are no      *)
(* failure of bind, listen, accept, connect, send or recv and no short      *)
(* recv.  Both processes run: a call that can return does return.  What     *)
(* the user types, and whether the user types at all, is left open.         *)
(***************************************************************************)
ServerStep ==
    \/ ServerBind
    \/ ServerListen
    \/ ServerAccept
    \/ ServerSendMenu
    \/ ServerRecvRequest
    \/ ServerSendResponse

ClientStep(c) ==
    \/ ClientConnect(c)
    \/ ClientRecvMenu(c)
    \/ ClientInput(c)
    \/ ClientRecvResponse(c)

UserStep(c) ==
    \/ \E input \in Lines : ClientFgets(c, input)
    \/ \E req \in Requests : PeerSend(c, req)

NextLive ==
    \/ ServerStep
    \/ \E c \in Clients : ClientStep(c)
    \/ \E c \in Clients : UserStep(c)

SpecLive ==
    /\ Init
    /\ [][NextLive]_vars
    /\ WF_vars(ServerStep)
    /\ \A c \in Clients : WF_vars(ClientStep(c))

\* client c waits in recv() for the response to the request it sent last
Awaiting(c) == cliPc[c] = "recv_response"

\* client c took the response to the request it sent last from the connection
Answered(c) ==
    /\ respsSent[c] = reqsSent[c]
    /\ \/ cliPc[c] = "prompt" /\ s2c[c] = <<>>
       \/ cliPc[c] = "done" /\ cliExit[c] = "0"

SentinelSent(c) == cliPc[c] = "recv_response" /\ cliReq[c].type \in Sentinels

BothClosed(c) ==
    /\ cliPc[c] = "done"
    /\ cliSock[c] = "closed"
    /\ srvSock[c] = "closed"
    /\ ~(InSession /\ client_socket = c)

(***************************************************************************)
(* C25: when no socket call fails and the processes keep running, every     *)
(* request the client sent is followed by the client receiving its          *)
(* response, and after the client sent the sentinel the client has left its *)
(* loop and closed its socket and the server has closed the session.        *)
(***************************************************************************)
C25_EveryRequestAnswered ==
    /\ \A c \in ProgramClients : Awaiting(c) ~> Answered(c)
    /\ \A c \in ProgramClients : SentinelSent(c) ~> BothClosed(c)

C25_Witness ==
    /\ BothClosed("c1")
    /\ reqsSent["c1"] = 2
    /\ respsSent["c1"] = 2
    /\ cliExit["c1"] = "0"

\* a peer is in recv() on connection c and no record for it is in flight
ServerBlocked(c) ==
    srvPc = "recv_request" /\ client_socket = c /\ c2s[c] = <<>>

ClientBlocked(c) ==
    cliPc[c] \in {"recv_menu", "recv_response"} /\ s2c[c] = <<>>

\* the next record on connection c is sent by the server: it is at a send(),
\* or its recv() has a request to return
ServerToSend(c) ==
    /\ client_socket = c
    /\ \/ srvPc \in {"send_menu", "send_response"}
       \/ srvPc = "recv_request" /\ c2s[c] # <<>>

\* the next record on connection c is sent by the client: it is at its
\* prompt or about to send, or its recv() has a record to return
ClientToSend(c) ==
    \/ cliPc[c] \in {"prompt", "parse"}
    \/ cliPc[c] \in {"recv_menu", "recv_response"} /\ s2c[c] # <<>>

(***************************************************************************)
(* C26: when no socket call fails, the server and the client of a session   *)
(* are never both in recv() with nothing in flight between them, and        *)
(* exactly one of them is the next to send.                                 *)
(***************************************************************************)
C26_NeverBothReceiving ==
    \A c \in Clients :
        InSession /\ client_socket = c =>
            /\ ~(ServerBlocked(c) /\ ClientBlocked(c))
            /\ ServerToSend(c) # ClientToSend(c)

C26_Witness ==
    /\ ServerBlocked("c1")
    /\ cliPc["c1"] = "prompt"
    /\ respsSent["c1"] = 1
    /\ faults = 0

\* the connections whose server end is open
OpenSessions == {c \in Clients : srvSock[c] = "open"}

C27_OneSession ==
    /\ Cardinality(OpenSessions) <= 1
    /\ InSession => OpenSessions = {client_socket}

C27_Steps ==
    \A c \in Clients :
        /\ menusSent'[c] # menusSent[c] =>
              /\ client_socket = c
              /\ \A d \in Clients \ {c} : srvSock[d] # "open"
        /\ reqsRead'[c] # reqsRead[c] =>
              /\ client_socket = c
              /\ \A d \in Clients \ {c} : srvSock[d] # "open"

(***************************************************************************)
(* C27: the server has at most one connection open at a time, the one of    *)
(* the session it is in; a client gets its menu, and has a request read,    *)
(* only while no other client's connection is open at the server.           *)
(***************************************************************************)
C27_OneSessionAtATime == []C27_OneSession /\ [][C27_Steps]_vars

\* both clients connected: the second got its menu after the first session
\* was closed, having waited in the backlog while the first was served
C27_Witness ==
    /\ menusSent["c1"] = 1
    /\ menusSent["c2"] = 1
    /\ Cardinality({c \in Clients : srvSock[c] = "closed"}) = 1
    /\ InSession
    /\ reqsRead[client_socket] = 1
    /\ \A c \in Clients : reqsSent[c] = 1

\* the bytes generate_password writes into response_msg.password: the
\* characters and the terminator
BytesWritten == Len(response_msg.password) + 1

(***************************************************************************)
(* C28: whenever generate_password is called, the length atoi() gave is in  *)
(* [MIN_PASSWORD_LENGTH, MAX_PASSWORD_LENGTH] and the password with its     *)
(* terminator fits the MAX_PASSWORD_LENGTH + 1 bytes of the field, also for *)
(* digit strings whose value does not fit an int.                           *)
(***************************************************************************)
C28_GeneratorStaysInField ==
    GeneratorInvoked =>
        /\ atoi(password_msg.length, libc) \in MIN_PASSWORD_LENGTH..MAX_PASSWORD_LENGTH
        /\ BytesWritten <= MAX_PASSWORD_LENGTH + 1
        /\ ClassOf(password_msg.type, "GARBAGE") \in PasswordType
              => Len(response_msg.password) = atoi(password_msg.length, libc)

C28_Witness ==
    /\ GeneratorInvoked
    /\ password_msg.type = "s"
    /\ password_msg.length = Wide32
    /\ libc = "wrap"
    /\ Len(response_msg.password) = MIN_PASSWORD_LENGTH

C28_WitnessLongest ==
    /\ GeneratorInvoked
    /\ password_msg.type = "s"
    /\ BytesWritten = MAX_PASSWORD_LENGTH + 1

(***************************************************************************)
(* C29: a response that carries a password carries one the generator wrote  *)
(* for the request it answers: the request took the generating branch and   *)
(* its selector chose the generator that filled the field.                  *)
(***************************************************************************)
C29_PasswordIsOfThisRequest ==
    Responding /\ response_msg.password # <<>> =>
        /\ GeneratorInvoked
        /\ ClassOf(password_msg.type, "GARBAGE") \in PasswordType

====
